---------------------------- MODULE Spec2Model ----------------------------
(***************************************************************************)
(* Model of the page-processing pipeline of dots-ocr-client:               *)
(*   - the dimension normalizer (smart_resize),                            *)
(*   - the coordinate mapper (pre_process_bboxes / post_process_cells),    *)
(*   - the output recovery engine (post_process_output and the branch of   *)
(*     DotsOCRParser._parse_single_image that consumes it),                *)
(*   - the page task scheduler (DotsOCRParser.parse_pdf on a ThreadPool)   *)
(*     and the synchronous single-image entry (parse_image).               *)
(*                                                                         *)
(* Strings returned by the model are represented by their content: a text  *)
(* is a record saying whether it is wrapped in a code fence and what its   *)
(* payload is (prose tokens, or a JSON list / object / number).  Python    *)
(* values are records tagged with their type.                              *)
(***************************************************************************)
EXTENDS Integers, Sequences, FiniteSets, TLC

(***************************************************************************)
(* Bounds of the model.                                                    *)
(***************************************************************************)
MaxPages == 3
MaxThreads == 2

(***************************************************************************)
(* Program constants.                                                      *)
(***************************************************************************)
MIN_PIXELS == 3136
MAX_PIXELS == 11289600
DefaultFactor == 28
\* DotsOCRParser.__init__ defaults: min_pixels=None, max_pixels=None.  None
\* is written 0: every use is "min_pixels or MIN_PIXELS", which treats None
\* and 0 alike.
self_min_pixels == 0
self_max_pixels == 0

Min(a, b) == IF a <= b THEN a ELSE b
Max(a, b) == IF a >= b THEN a ELSE b

(***************************************************************************)
(* Dimension normalizer.                                                   *)
(***************************************************************************)
\* round(number / factor) * factor with Python's round (ties to even).
round_by_factor(number, factor) ==
    LET q == number \div factor
        r == number % factor
    IN  IF 2 * r < factor THEN q * factor
        ELSE IF 2 * r > factor THEN (q + 1) * factor
        ELSE IF q % 2 = 0 THEN q * factor ELSE (q + 1) * factor

\* floor_by_factor(x / beta, factor) where beta = sqrt(x * y / max_pixels):
\* factor times the largest k with k * factor <= x / beta, that is with
\* k^2 * factor^2 * y <= x * max_pixels.
RECURSIVE FloorSearch(_, _, _, _, _)
FloorSearch(k, x, y, max_pixels, factor) ==
    IF (k + 1) * (k + 1) * factor * factor * y <= x * max_pixels
    THEN FloorSearch(k + 1, x, y, max_pixels, factor)
    ELSE k

floor_scaled(x, y, max_pixels, factor) == FloorSearch(0, x, y, max_pixels, factor) * factor

\* ceil_by_factor(x * beta, factor) where beta = sqrt(min_pixels / (x * y)):
\* factor times the least k with k * factor >= x * beta, that is with
\* k^2 * factor^2 * y >= x * min_pixels.
RECURSIVE CeilSearch(_, _, _, _, _)
CeilSearch(k, x, y, min_pixels, factor) ==
    IF k * k * factor * factor * y >= x * min_pixels
    THEN k
    ELSE CeilSearch(k + 1, x, y, min_pixels, factor)

ceil_scaled(x, y, min_pixels, factor) == CeilSearch(0, x, y, min_pixels, factor) * factor

\* smart_resize(height, width, factor, min_pixels, max_pixels) -> <<h_bar, w_bar>>:
\* both sides rounded to the factor grid; scaled down (rounding down) when the
\* product exceeds max_pixels, scaled up (rounding up) when it is below
\* min_pixels, the aspect ratio kept.
smart_resize(height, width, factor, min_pixels, max_pixels) ==
    LET h0 == Max(factor, round_by_factor(height, factor))
        w0 == Max(factor, round_by_factor(width, factor))
    IN  IF h0 * w0 > max_pixels
        THEN << Max(factor, floor_scaled(height, width, max_pixels, factor)),
                Max(factor, floor_scaled(width, height, max_pixels, factor)) >>
        ELSE IF h0 * w0 < min_pixels
        THEN LET h1 == ceil_scaled(height, width, min_pixels, factor)
                 w1 == ceil_scaled(width, height, min_pixels, factor)
             IN  IF h1 * w1 > max_pixels
                 THEN << Max(factor, floor_scaled(h1, w1, max_pixels, factor)),
                         Max(factor, floor_scaled(w1, h1, max_pixels, factor)) >>
                 ELSE << h1, w1 >>
        ELSE << h0, w0 >>

(***************************************************************************)
(* Coordinate mapper.  An image is a record [id, width, height].           *)
(***************************************************************************)
\* int(float(c) / (a / b)) for c >= 0 and a, b > 0: the truncation of c * b / a.
\* (In binary floating point the quotient of an exactly divisible pair can
\* fall just below the integer, which yields one less.)
ScaleTrunc(c, a, b) == (c * b) \div a

orDefault(v, d) == IF v = 0 THEN d ELSE v

\* Mutant: the lower budget is passed as the upper budget too.
normalized_size_max_is_min(input_height, input_width, factor, min_pixels, max_pixels) ==
    smart_resize(input_height, input_width, factor,
                 orDefault(min_pixels, MIN_PIXELS), orDefault(min_pixels, MIN_PIXELS))

\* Mutant: height and width are passed in the wrong order.
normalized_size_swapped(input_height, input_width, factor, min_pixels, max_pixels) ==
    smart_resize(input_width, input_height, factor,
                 orDefault(min_pixels, MIN_PIXELS), orDefault(max_pixels, MAX_PIXELS))

\* min_pixels = min_pixels or MIN_PIXELS; max_pixels = max_pixels or MAX_PIXELS;
\* smart_resize(input_height, input_width, min_pixels=..., max_pixels=...)
normalized_size(input_height, input_width, factor, min_pixels, max_pixels) ==
    smart_resize(input_height, input_width, factor,
                 orDefault(min_pixels, MIN_PIXELS), orDefault(max_pixels, MAX_PIXELS))

pre_process_bboxes(origin_image, bboxes, input_width, input_height, min_pixels, max_pixels) ==
    LET hw == normalized_size(input_height, input_width, DefaultFactor, min_pixels, max_pixels)
        ih == hw[1]
        iw == hw[2]
        \* scale_x = original_width / input_width, scale_y = original_height / input_height
    IN  [ k \in 1..Len(bboxes) |->
            << ScaleTrunc(bboxes[k][1], origin_image.width, iw),
               ScaleTrunc(bboxes[k][2], origin_image.height, ih),
               ScaleTrunc(bboxes[k][3], origin_image.width, iw),
               ScaleTrunc(bboxes[k][4], origin_image.height, ih) >> ]

\* Mutant: the coordinates are multiplied by the scale instead of divided.
cell_bbox_resized_multiplied(bbox, original_width, original_height, iw, ih) ==
    << ScaleTrunc(bbox[1], original_width, iw),
       ScaleTrunc(bbox[2], original_height, ih),
       ScaleTrunc(bbox[3], original_width, iw),
       ScaleTrunc(bbox[4], original_height, ih) >>

\* post_process_cells' bbox arithmetic for one cell:
\* scale_x = input_width / original_width, each coordinate int(float(c) / scale).
cell_bbox_resized(bbox, original_width, original_height, iw, ih) ==
    << ScaleTrunc(bbox[1], iw, original_width),
       ScaleTrunc(bbox[2], ih, original_height),
       ScaleTrunc(bbox[3], iw, original_width),
       ScaleTrunc(bbox[4], ih, original_height) >>

(***************************************************************************)
(* Values.                                                                 *)
(*   Item : an element of a JSON list.  isdict says whether it is an       *)
(*          object; hasbbox / hastext say which keys it carries.           *)
(*   Str  : a text, by content.  kind "prose" is text that is not JSON     *)
(*          (its words are toks); "list", "object", "number" are JSON      *)
(*          texts; fence says the text is wrapped in a ``` code fence.     *)
(*   Val  : a Python value: a str, a list, a dict, a number or None.       *)
(* Words are naturals; 0 is the blank line "\n\n" of the join.  A word of  *)
(* a response is 10 * (page of the call) + k, so that a text records which *)
(* inference call produced it.                                             *)
(***************************************************************************)
NoBbox == << 0, 0, 0, 0 >>

Cell(bbox, category, text) ==
    [ isdict |-> TRUE, hasbbox |-> TRUE, bbox |-> bbox, category |-> category,
      hastext |-> TRUE, text |-> text ]

CellNoText(bbox, category) ==
    [ isdict |-> TRUE, hasbbox |-> TRUE, bbox |-> bbox, category |-> category,
      hastext |-> FALSE, text |-> << >> ]

CellNoBbox(category, text) ==
    [ isdict |-> TRUE, hasbbox |-> FALSE, bbox |-> NoBbox, category |-> category,
      hastext |-> TRUE, text |-> text ]

Scalar ==
    [ isdict |-> FALSE, hasbbox |-> FALSE, bbox |-> NoBbox, category |-> "",
      hastext |-> FALSE, text |-> << >> ]

Prose(toks) == [ fence |-> FALSE, kind |-> "prose", items |-> << >>, toks |-> toks ]
JsonList(items) == [ fence |-> FALSE, kind |-> "list", items |-> items, toks |-> << >> ]
JsonObject == [ fence |-> FALSE, kind |-> "object", items |-> << >>, toks |-> << >> ]
JsonNumber == [ fence |-> FALSE, kind |-> "number", items |-> << >>, toks |-> << >> ]
Fenced(s) == [ s EXCEPT !.fence = TRUE ]

EmptyStr == Prose(<< >>)

StrVal(s) == [ t |-> "str", s |-> s, items |-> << >> ]
ListVal(items) == [ t |-> "list", s |-> EmptyStr, items |-> items ]
DictVal == [ t |-> "dict", s |-> EmptyStr, items |-> << >> ]
NumVal == [ t |-> "num", s |-> EmptyStr, items |-> << >> ]
NoneVal == [ t |-> "none", s |-> EmptyStr, items |-> << >> ]

\* The prompt modes whose response post_process_output returns as it is.
RawModes ==
    { "prompt_ocr", "prompt_table_html", "prompt_table_latex", "prompt_formula_latex" }

\* The outcome of a call that may raise.
Returned(v) == [ ok |-> TRUE, val |-> v, exc |-> "" ]
Raised(e) == [ ok |-> FALSE, val |-> NoneVal, exc |-> e ]

\* json.loads on a str.
json_loads(s) ==
    IF s.fence \/ s.kind = "prose" THEN Raised("JSONDecodeError")
    ELSE IF s.kind = "list" THEN Returned(ListVal(s.items))
    ELSE IF s.kind = "object" THEN Returned(DictVal)
    ELSE Returned(NumVal)

(***************************************************************************)
(* Output recovery engine.                                                 *)
(***************************************************************************)
\* Mutant: the output cells are built anew and carry the bbox only.
post_process_cells_bbox_only(origin_image, cells, input_width, input_height, min_pixels, max_pixels) ==
    IF ~(cells.t = "list" /\ Len(cells.items) > 0 /\ cells.items[1].isdict)
    THEN Raised("AssertionError")
    ELSE
    LET hw == normalized_size(input_height, input_width, DefaultFactor, min_pixels, max_pixels)
    IN  IF \E k \in 1..Len(cells.items) : ~cells.items[k].isdict
        THEN Raised("TypeError")
        ELSE IF \E k \in 1..Len(cells.items) : ~cells.items[k].hasbbox
        THEN Raised("KeyError")
        ELSE Returned(ListVal(
               [ k \in 1..Len(cells.items) |->
                   CellNoText(cell_bbox_resized(cells.items[k].bbox, origin_image.width,
                                  origin_image.height, hw[2], hw[1]), "") ]))

\* The caller's list after post_process_cells returned: the function appends
\* copies (cell.copy()) to a new list and assigns the bbox of the copy only.
cells_after_post_process(cells) == cells

post_process_cells(origin_image, cells, input_width, input_height, min_pixels, max_pixels) ==
    IF ~(cells.t = "list" /\ Len(cells.items) > 0 /\ cells.items[1].isdict)
    THEN Raised("AssertionError")
    ELSE
    LET hw == normalized_size(input_height, input_width, DefaultFactor, min_pixels, max_pixels)
        ih == hw[1]
        iw == hw[2]
    IN  IF \E k \in 1..Len(cells.items) : ~cells.items[k].isdict
        THEN Raised("TypeError")
        ELSE IF \E k \in 1..Len(cells.items) : ~cells.items[k].hasbbox
        THEN Raised("KeyError")
        ELSE Returned(ListVal(
               [ k \in 1..Len(cells.items) |->
                   [ cells.items[k] EXCEPT
                       !.bbox = cell_bbox_resized(cells.items[k].bbox,
                                   origin_image.width, origin_image.height, iw, ih) ] ]))

is_legal_bbox(cells) ==
    \A k \in 1..Len(cells) :
        ~(cells[k].bbox[3] <= cells[k].bbox[1] \/ cells[k].bbox[4] <= cells[k].bbox[2])

\* OutputCleaner.clean_model_output: strips the wrapper; a payload that still
\* parses as a list is returned as the list of its cell-like records, anything
\* else is returned as the cleaned text (of a value that is no text: its JSON
\* text).
IsRecord(item) == item.isdict

clean_model_output(v) ==
    IF v.t = "list"
    THEN ListVal(SelectSeq(v.items, IsRecord))
    ELSE IF v.t = "str"
    THEN LET c == [ v.s EXCEPT !.fence = FALSE ]
         IN  IF c.kind = "list"
             THEN ListVal(SelectSeq(c.items, IsRecord))
             ELSE StrVal(c)
    ELSE IF v.t = "dict" THEN StrVal(JsonObject)
    ELSE IF v.t = "num" THEN StrVal(JsonNumber)
    ELSE v

\* Mutant: every record contributes, one without text an empty text.
RECURSIVE join_texts_all(_)
join_texts_all(items) ==
    IF items = << >> THEN << >>
    ELSE IF Tail(items) = << >> THEN Head(items).text
    ELSE Head(items).text \o << 0 >> \o join_texts_all(Tail(items))

\* "\n\n".join([cell['text'] for cell in response_clean if 'text' in cell])
RECURSIVE join_texts(_)
join_texts(items) ==
    IF items = << >> THEN << >>
    ELSE LET rest == join_texts(Tail(items))
         IN  IF ~Head(items).hastext THEN rest
             ELSE IF \E k \in 1..Len(Tail(items)) : Tail(items)[k].hastext
                  THEN Head(items).text \o << 0 >> \o rest
                  ELSE Head(items).text


\* Mutant: no try/except around json.loads and post_process_cells.
post_process_output_notry(response, prompt_mode, origin_image, input_image, min_pixels, max_pixels) ==
    LET loaded == IF response.t = "str" THEN json_loads(response.s)
                  ELSE Raised("TypeError")
        processed == IF loaded.ok
                     THEN post_process_cells(origin_image, loaded.val,
                              input_image.width, input_image.height,
                              min_pixels, max_pixels)
                     ELSE loaded
    IN  IF processed.ok
        THEN [ ok |-> TRUE, bare |-> FALSE, cells |-> processed.val, filtered |-> FALSE,
               exc |-> "" ]
        ELSE [ ok |-> FALSE, bare |-> FALSE, cells |-> NoneVal, filtered |-> FALSE,
               exc |-> processed.exc ]

\* post_process_output(response, prompt_mode, origin_image, input_image, ...)
\* <<cells, filtered>>, or the exception that leaves the function; for the
\* raw modes the response alone (bare), not a pair.  The try block covers
\* json.loads and post_process_cells; the cleaner and the join run outside it.
post_process_output(response, prompt_mode, origin_image, input_image, min_pixels, max_pixels) ==
    LET loaded == IF response.t = "str" THEN json_loads(response.s)
                  ELSE Raised("TypeError")
        processed == IF loaded.ok
                     THEN post_process_cells(origin_image, loaded.val,
                              input_image.width, input_image.height,
                              min_pixels, max_pixels)
                     ELSE loaded
        \* cells = json.loads(cells) rebinds cells before post_process_cells runs
        cells == IF loaded.ok THEN loaded.val ELSE response
        response_clean == clean_model_output(cells)
    IN  IF prompt_mode \in RawModes
        THEN [ ok |-> TRUE, bare |-> TRUE, cells |-> response, filtered |-> FALSE,
               exc |-> "" ]
        ELSE IF processed.ok
        THEN [ ok |-> TRUE, bare |-> FALSE, cells |-> processed.val, filtered |-> FALSE,
               exc |-> "" ]
        ELSE [ ok |-> TRUE, bare |-> FALSE,
               cells |-> IF response_clean.t = "list"
                         THEN StrVal(Prose(join_texts(response_clean.items)))
                         ELSE response_clean,
               filtered |-> TRUE, exc |-> "" ]

(***************************************************************************)
(* The page task: DotsOCRParser._parse_single_image.                       *)
(***************************************************************************)
\* Mutant: the OCR mode is listed among the structured-layout modes.
LayoutModes_with_ocr ==
    { "prompt_layout_all_en", "prompt_layout_only_en", "prompt_grounding_ocr", "prompt_ocr" }

LayoutModes == { "prompt_layout_all_en", "prompt_layout_only_en", "prompt_grounding_ocr" }
PromptModes == LayoutModes \cup { "prompt_ocr" }
AllPromptModes == LayoutModes \cup RawModes
Backends == { "vllm", "replicate" }

NoImage == -1

\* fetch_image(image, min_pixels, max_pixels): the image resized to its
\* normalized dimensions when a pixel budget is given, the image itself
\* otherwise.
fetch_image(image, min_pixels, max_pixels) ==
    IF min_pixels = 0 /\ max_pixels = 0 THEN image
    ELSE LET hw == smart_resize(image.height, image.width, DefaultFactor,
                        orDefault(min_pixels, MIN_PIXELS), orDefault(max_pixels, MAX_PIXELS))
         IN  [ image EXCEPT !.height = hw[1], !.width = hw[2] ]

\* min_pixels, max_pixels as _parse_single_image binds them (lines 113-116).
task_min_pixels(prompt_mode) ==
    IF prompt_mode = "prompt_grounding_ocr" THEN orDefault(self_min_pixels, MIN_PIXELS)
    ELSE self_min_pixels

task_max_pixels(prompt_mode) ==
    IF prompt_mode = "prompt_grounding_ocr" THEN orDefault(self_max_pixels, MAX_PIXELS)
    ELSE self_max_pixels

\* The image sent to the inference client.
input_image(origin_image, prompt_mode) ==
    fetch_image(origin_image, task_min_pixels(prompt_mode), task_max_pixels(prompt_mode))

\* get_prompt: the grounding mode asserts that a bbox was given.
get_prompt_raises(prompt_mode, has_bbox) ==
    prompt_mode = "prompt_grounding_ocr" /\ ~has_bbox

\* layoutjson2md(origin_image, cells, text_key='text', no_page_hf): the texts
\* of the cells, without the page headers and footers when no_page_hf.
NotPageHF(item) == item.category \notin { "Page-header", "Page-footer" }

layoutjson2md(cells, no_page_hf) ==
    StrVal(Prose(join_texts(IF no_page_hf THEN SelectSeq(cells.items, NotPageHF)
                            ELSE cells.items)))

\* The outcome of a page task: the result dict, or the exception it raised.
TaskOk(result) == [ ok |-> TRUE, result |-> result, exc |-> "" ]

NoResult ==
    [ page_no |-> -1, input_height |-> 0, input_width |-> 0,
      cells |-> NoneVal, filtered |-> FALSE, image_with_layout |-> NoImage,
      md_content |-> NoneVal, md_content_no_hf |-> NoneVal,
      response |-> NoneVal, origin_image |-> NoImage, file_path |-> "" ]

TaskRaised(exc) == [ ok |-> FALSE, result |-> NoResult, exc |-> exc ]

\* _parse_single_image after the inference call returned `response`.  A key
\* of the result dict that the code does not set holds NoneVal / NoImage /
\* FALSE.
parse_single_image(origin_image, prompt_mode, page_idx, response) ==
    LET min_pixels == task_min_pixels(prompt_mode)
        max_pixels == task_max_pixels(prompt_mode)
        image == input_image(origin_image, prompt_mode)
        hw == smart_resize(image.height, image.width, DefaultFactor, MIN_PIXELS, MAX_PIXELS)
        base == [ NoResult EXCEPT !.page_no = page_idx,
                                  !.input_height = hw[1], !.input_width = hw[2] ]
    IN  IF prompt_mode \in LayoutModes
        THEN LET out == post_process_output(response, prompt_mode, origin_image, image,
                                            min_pixels, max_pixels)
             IN  IF ~out.ok THEN TaskRaised(out.exc)
                 \* cells, filtered = <a str>: the unpacking raises
                 ELSE IF out.bare THEN TaskRaised("ValueError")
                 ELSE IF out.filtered /\ prompt_mode # "prompt_layout_only_en"
                 THEN TaskOk([ base EXCEPT !.cells = response, !.filtered = TRUE ])
                 ELSE TaskOk([ base EXCEPT
                          !.cells = out.cells,
                          !.image_with_layout = origin_image.id,
                          !.md_content =
                              IF prompt_mode # "prompt_layout_only_en"
                              THEN layoutjson2md(out.cells, FALSE) ELSE NoneVal,
                          !.md_content_no_hf =
                              IF prompt_mode # "prompt_layout_only_en"
                              THEN layoutjson2md(out.cells, TRUE) ELSE NoneVal ])
        ELSE TaskOk([ base EXCEPT !.response = response,
                                  !.origin_image = origin_image.id ])

(***************************************************************************)
(* The inference client and the rasterizer, at their boundary.             *)
(***************************************************************************)
\* The page images load_images_from_pdf returns: page i is 200+100*i wide.
PageImage(i) == [ id |-> i, width |-> 200 + 100 * i, height |-> 100 ]

\* The texts the client may return to the call made with image `call`.
ValidResponse(call) ==
    JsonList(<< Cell(<< 10, 10, 100, 40 >>, "Title", << 10 * call + 1 >>) >>)

IllegalBboxResponse(call) ==
    JsonList(<< Cell(<< 10, 10, 100, 40 >>, "Text", << 10 * call + 1 >>),
                Cell(<< 100, 100, 50, 50 >>, "Text", << 10 * call + 2 >>),
                Cell(<< 20, 50, 120, 90 >>, "Page-footer", << 10 * call + 3 >>) >>)

NoBboxResponse(call) ==
    JsonList(<< CellNoBbox("Text", << 10 * call + 5 >>),
                CellNoText(<< 10, 10, 100, 40 >>, "Picture"),
                CellNoBbox("Text", << 10 * call + 6 >>) >>)

\* The texts the batch entry explores.
Responses(call) ==
    { ValidResponse(call),
      IllegalBboxResponse(call),
      Prose(<< 10 * call + 4 >>),
      Fenced(ValidResponse(call)),
      JsonList(<< >>),
      NoBboxResponse(call) }

\* The single-image entry also explores JSON that is no list of records.
ImageResponses(call) ==
    Responses(call) \cup { JsonObject, JsonNumber, JsonList(<< Scalar >>),
                           JsonList(<< CellNoText(<< 10, 10, 100, 40 >>, "Picture"), Scalar >>) }

\* The parser's inference settings (temperature and top_p in hundredths).
self_temperature == 10
self_top_p == 100
self_max_completion_tokens == 16384

\* The keyword parameters of the two clients.
client_params(backend) ==
    IF backend = "replicate"
    THEN { "deployment", "api_token", "temperature", "top_p", "max_completion_tokens" }
    ELSE { "ip", "port", "temperature", "top_p", "max_completion_tokens", "model_name" }

NoRequest ==
    [ keys |-> {}, temperature |-> 0, top_p |-> 0, max_completion_tokens |-> 0 ]

\* The keyword arguments _inference_with_replicate / _inference_with_vllm pass.
inference_request(backend) ==
    [ keys |-> IF backend = "replicate"
               THEN { "deployment", "api_token", "temperature", "top_p",
                      "max_completion_tokens" }
               ELSE { "base_url", "api_token", "model_name", "temperature", "top_p",
                      "max_completion_tokens" },
      temperature |-> self_temperature,
      top_p |-> self_top_p,
      max_completion_tokens |-> self_max_completion_tokens ]

\* A call with a keyword the client does not have raises TypeError before the
\* client's body runs.
accepted(backend) == inference_request(backend).keys \subseteq client_params(backend)

delivered(backend) == IF accepted(backend) THEN inference_request(backend) ELSE NoRequest

\* _inference: the outcomes of the call for each backend.  _inference_with_vllm
\* passes base_url= and api_token= to inference_with_vllm, which takes neither:
\* the call raises TypeError before any request is made.
InferenceOutcomes(backend, texts) ==
    IF ~accepted(backend) THEN { Raised("TypeError") }
    ELSE { Returned(StrVal(r)) : r \in texts } \cup { Raised("InferenceError") }

(***************************************************************************)
(* Direct calls of the dimension normalizer and of the coordinate mappers. *)
(***************************************************************************)
MaxDimStep == 3
MaxCoordStep == 3

\* Native and input side lengths, and box coordinates.
Dims == { 10 + 50 * k : k \in 0..MaxDimStep }
LowCoords == { 0, 7 }
HighCoords == { 1 + 33 * k : k \in 1..MaxCoordStep }
Boxes == { << x1, y1, x2, y2 >> : x1 \in LowCoords, y1 \in LowCoords,
                                   x2 \in HighCoords, y2 \in HighCoords }
Factors == { DefaultFactor, 14 }

\* Pixel budgets as passed by a caller (0: None), with min_pixels <= max_pixels
\* after the defaults are filled in.
Budgets ==
    { b \in [ min_pixels : { 0, 5000 }, max_pixels : { 0, MIN_PIXELS, 4000, 20000 } ] :
        orDefault(b.min_pixels, MIN_PIXELS) <= orDefault(b.max_pixels, MAX_PIXELS) }

NoSize == << 0, 0 >>

NoOutput == [ ok |-> FALSE, bare |-> FALSE, cells |-> NoneVal, filtered |-> FALSE, exc |-> "" ]

call(task, height, width, factor, budget, origin, box) ==
    [ task |-> task, at |-> "called", height |-> height, width |-> width,
      factor |-> factor, min_pixels |-> budget.min_pixels, max_pixels |-> budget.max_pixels,
      origin_image |-> origin, box |-> box,
      size |-> NoSize, again |-> NoSize, normalized |-> NoBbox, restored |-> NoBbox,
      mode |-> "", response |-> NoneVal, output |-> NoOutput,
      cells |-> NoneVal, cells_out |-> Raised(""), cells_after |-> NoneVal ]

\* Cell lists given to post_process_cells directly.
MaxCells == 2

CellPool ==
    { Cell(<< 10, 10, 100, 40 >>, "Title", << 1 >>),
      CellNoText(<< 0, 7, 34, 67 >>, "Picture"),
      Cell(<< 100, 100, 50, 50 >>, "Text", << 2 >>),
      Cell(<< 20, 50, 120, 90 >>, "Page-footer", << 3, 4 >>),
      CellNoBbox("Text", << 5 >>) }

CellLists == UNION { [ 1..n -> CellPool ] : n \in 1..MaxCells }

\* Responses given to post_process_output directly: those of the page task and
\* fenced and unfenced lists that mix records with and without text.
MixedList ==
    JsonList(<< CellNoBbox("Text", << 5 >>),
                CellNoText(<< 10, 10, 100, 40 >>, "Picture"),
                Scalar,
                Cell(<< 20, 50, 120, 90 >>, "Text", << 6, 7 >>),
                CellNoBbox("Page-footer", << 8 >>) >>)

RecoverResponses ==
    ImageResponses(0)
    \cup { MixedList, Fenced(MixedList), Fenced(NoBboxResponse(0)), Fenced(JsonList(<< >>)),
           Fenced(Prose(<< 9 >>)), Fenced(JsonObject) }

NoCall ==
    call("none", 0, 0, DefaultFactor, [ min_pixels |-> 0, max_pixels |-> 0 ],
         [ id |-> 0, width |-> 0, height |-> 0 ], NoBbox)

(***************************************************************************)
(* parse_file: the dispatch on the file extension.                         *)
(***************************************************************************)
image_extensions == { ".jpg", ".jpeg", ".png" }

FileExts == { ".pdf", ".png", ".txt", "" }

\* Mutant: every extension other than '.pdf' is handed to parse_image.
parse_file_branch_no_else(ext) ==
    IF ext = ".pdf" THEN "pdf" ELSE "image"

parse_file_branch(ext) ==
    IF ext = ".pdf" THEN "pdf"
    ELSE IF ext \in image_extensions THEN "image"
    ELSE "unsupported"

(***************************************************************************)
(* State.                                                                  *)
(***************************************************************************)
VARIABLES
    file_ext,           \* the extension of the path given to parse_file
    entry,              \* the branch parse_file takes: "pdf", "image", "unsupported"
    pages_loaded,       \* number of page images loaded from the input so far
    total_pages,        \* len(images_origin)
    self_num_thread,    \* the parser's configured num_thread
    prompt_mode,        \* the prompt mode of the call
    backend,            \* the parser's backend
    has_bbox,           \* parse_image was given a bbox
    pc,                 \* where the calling thread is
    num_thread,         \* parse_pdf's local num_thread (-1 before it is bound)
    pool_size,          \* number of worker threads of the pool (0: no pool)
    inqueue,            \* the pool's queue of page tasks not yet taken
    running,            \* page tasks a worker has taken and not yet finished
    started,            \* page tasks ever taken by a worker
    outqueue,           \* finished tasks' outcomes, in completion order
    results,            \* parse_pdf's local list `results`
    ret,                \* the list returned to the caller (<< >> before)
    exc,                \* the exception propagated to the caller ("" if none)
    calls,              \* per page, the number of inference calls made
    sent,               \* per page, the request the inference client was given
    received,           \* per page, what its inference call returned
    queued_at_failure,  \* the tasks queued when the caller saw a task fail
    dropped,            \* the tasks the pool's termination removed from the queue
    out_of_order,       \* a result was collected after one of a later page
    terminated,         \* the pool was terminated (the with-block was left)
    m                   \* a direct call of the normalizer or of the mapper pair

vars == << file_ext, pages_loaded, entry, total_pages, self_num_thread, prompt_mode, backend, has_bbox, pc,
           num_thread, pool_size, inqueue, running, started, outqueue, results,
           ret, exc, calls, sent, received, queued_at_failure, dropped, out_of_order,
           terminated, m >>

config == << file_ext, entry, total_pages, self_num_thread, prompt_mode, backend, has_bbox >>

Pages == 0..(MaxPages - 1)

Init ==
    /\ file_ext \in FileExts
    /\ entry = parse_file_branch(file_ext)
    /\ pages_loaded = 0
    /\ prompt_mode \in IF entry = "image" THEN AllPromptModes ELSE PromptModes
    /\ backend \in Backends
    /\ self_num_thread \in 0..MaxThreads
    /\ IF entry = "pdf"
       THEN total_pages \in 0..MaxPages /\ has_bbox = FALSE
       ELSE total_pages = 1 /\ has_bbox \in BOOLEAN
    /\ pc = "start"
    /\ num_thread = -1
    /\ pool_size = 0
    /\ inqueue = << >>
    /\ running = {}
    /\ started = {}
    /\ outqueue = << >>
    /\ results = << >>
    /\ ret = << >>
    /\ exc = ""
    /\ calls = [ i \in Pages |-> 0 ]
    /\ sent = [ i \in Pages |-> NoRequest ]
    /\ received = [ i \in Pages |-> NoneVal ]
    /\ queued_at_failure = {}
    /\ dropped = {}
    /\ out_of_order = FALSE
    /\ terminated = FALSE
    /\ m = NoCall

(***************************************************************************)
(* parse_pdf.                                                              *)
(***************************************************************************)
\* Mutant: every task is handed the first page's image.
TaskArgs_first_image(i) == [ origin_image |-> PageImage(0), page_idx |-> i ]

\* The task list: one task per page, in page order (lines 184-193).
TaskArgs(i) == [ origin_image |-> PageImage(i), page_idx |-> i ]

\* Mutant: the task list stops one page short.
Tasks_drop_last(n) == [ k \in 1..(n - 1) |-> TaskArgs(k - 1) ]

Tasks(n) == [ k \in 1..n |-> TaskArgs(k - 1) ]

\* num_thread = min(total_pages, self.num_thread)
pool_num_thread(pages, configured) == Min(pages, configured)

\* ThreadPool(num_thread) raises ValueError when num_thread < 1; otherwise
\* imap_unordered queues every task.
CreatePool ==
    /\ entry = "pdf" /\ pc = "start"
    /\ pages_loaded' = total_pages
    /\ num_thread' = pool_num_thread(total_pages, self_num_thread)
    /\ IF num_thread' < 1
       THEN /\ pc' = "raised"
            /\ exc' = "ValueError"
            /\ UNCHANGED << pool_size, inqueue >>
       ELSE /\ pc' = "collect"
            /\ pool_size' = num_thread'
            /\ inqueue' = [ k \in 1..Len(Tasks(total_pages)) |->
                               Tasks(total_pages)[k].page_idx ]
            /\ exc' = exc
    /\ UNCHANGED << m, config, running, started, outqueue, results, ret, calls, sent,
                    received, queued_at_failure, dropped, out_of_order, terminated >>

\* A free worker takes the next queued task.
WorkerGet ==
    /\ inqueue # << >>
    /\ Cardinality(running) < pool_size
    /\ running' = running \cup { Head(inqueue) }
    /\ started' = started \cup { Head(inqueue) }
    /\ inqueue' = Tail(inqueue)
    /\ UNCHANGED << m, pages_loaded, config, pc, num_thread, pool_size, outqueue, results, ret, exc,
                    calls, sent, received, queued_at_failure, dropped, out_of_order,
                    terminated >>

\* The task raises before it reaches the inference call (get_prompt's assert).
TaskFailsEarly(i) ==
    /\ i \in running
    /\ get_prompt_raises(prompt_mode, has_bbox)
    /\ running' = running \ { i }
    /\ outqueue' = Append(outqueue, TaskRaised("AssertionError"))
    /\ UNCHANGED << m, pages_loaded, config, pc, num_thread, pool_size, inqueue, started, results, ret,
                    exc, calls, sent, received, queued_at_failure, dropped, out_of_order,
                    terminated >>

\* _execute_task(task): the inference call and what follows it.
execute_task(task, mode, outcome) ==
    IF outcome.ok
    THEN parse_single_image(task.origin_image, mode, task.page_idx, outcome.val)
    ELSE TaskRaised(outcome.exc)

TaskRuns(i) ==
    /\ i \in running
    /\ ~get_prompt_raises(prompt_mode, has_bbox)
    /\ \E outcome \in InferenceOutcomes(backend,
                          Responses(input_image(TaskArgs(i).origin_image, prompt_mode).id)) :
          /\ calls' = [ calls EXCEPT ![i] = @ + 1 ]
          /\ sent' = [ sent EXCEPT ![i] = delivered(backend) ]
          /\ received' = [ received EXCEPT ![i] = outcome.val ]
          /\ outqueue' = Append(outqueue, execute_task(TaskArgs(i), prompt_mode, outcome))
    /\ running' = running \ { i }
    /\ UNCHANGED << m, pages_loaded, config, pc, num_thread, pool_size, inqueue, started, results, ret,
                    exc, queued_at_failure, dropped, out_of_order, terminated >>

\* The for loop over imap_unordered takes the next finished task: its result
\* is appended, its exception is re-raised in the calling thread.
Collect ==
    /\ pc = "collect"
    /\ outqueue # << >>
    /\ outqueue' = Tail(outqueue)
    /\ IF Head(outqueue).ok
       THEN /\ results' = Append(results, Head(outqueue).result)
            /\ out_of_order' =
                  (out_of_order \/ \E k \in 1..Len(results) :
                                      results[k].page_no > Head(outqueue).result.page_no)
            /\ UNCHANGED << pc, exc, queued_at_failure >>
       ELSE /\ pc' = "failed"
            /\ exc' = Head(outqueue).exc
            /\ queued_at_failure' = { inqueue[k] : k \in 1..Len(inqueue) }
            /\ UNCHANGED << results, out_of_order >>
    /\ UNCHANGED << m, pages_loaded, config, num_thread, pool_size, inqueue, running, started, ret,
                    calls, sent, received, dropped, terminated >>

\* Mutant: the pool is closed instead of terminated, the queue is kept.
LeaveWith_close ==
    /\ \/ pc = "collect" /\ Len(results) = Len(Tasks(total_pages)) /\ pc' = "sort"
       \/ pc = "failed" /\ pc' = "raised"
    /\ terminated' = TRUE
    /\ dropped' = { inqueue[k] : k \in 1..Len(inqueue) }
    /\ UNCHANGED << m, pages_loaded, config, num_thread, pool_size, inqueue, running, started, outqueue,
                    results, ret, exc, calls, sent, received, queued_at_failure, out_of_order >>

\* Mutant: the loop is left as soon as no finished task waits for collection.
LeaveWith_early ==
    /\ \/ pc = "collect" /\ outqueue = << >> /\ pc' = "sort"
       \/ pc = "failed" /\ pc' = "raised"
    /\ terminated' = TRUE
    /\ dropped' = { inqueue[k] : k \in 1..Len(inqueue) }
    /\ inqueue' = << >>
    /\ UNCHANGED << m, pages_loaded, config, num_thread, pool_size, running, started, outqueue, results,
                    ret, exc, calls, sent, received, queued_at_failure, out_of_order >>

\* Leaving the with-block terminates the pool: the queue is drained, the
\* worker threads are not joined.
LeaveWith ==
    /\ \/ pc = "collect" /\ Len(results) = Len(Tasks(total_pages)) /\ pc' = "sort"
       \/ pc = "failed" /\ pc' = "raised"
    /\ terminated' = TRUE
    /\ dropped' = { inqueue[k] : k \in 1..Len(inqueue) }
    /\ inqueue' = << >>
    /\ UNCHANGED << m, pages_loaded, config, num_thread, pool_size, running, started, outqueue, results,
                    ret, exc, calls, sent, received, queued_at_failure, out_of_order >>

\* results.sort(key=lambda x: x["page_no"]): insertion of each element after
\* the elements whose key is not larger (the sort is stable).
RECURSIVE sort_insert(_, _)
sort_insert(sorted, r) ==
    IF sorted = << >> THEN << r >>
    ELSE IF Head(sorted).page_no <= r.page_no
         THEN << Head(sorted) >> \o sort_insert(Tail(sorted), r)
         ELSE << r >> \o sorted

\* Mutant: the results are returned in collection order.
no_sort(rs) == rs

RECURSIVE sort_by_page_no(_)
sort_by_page_no(rs) ==
    IF rs = << >> THEN << >>
    ELSE sort_insert(sort_by_page_no(SubSeq(rs, 1, Len(rs) - 1)), rs[Len(rs)])

set_file_path(rs) == [ k \in 1..Len(rs) |-> [ rs[k] EXCEPT !.file_path = "input_path" ] ]

SortAndReturn ==
    /\ pc = "sort"
    /\ results' = set_file_path(sort_by_page_no(results))
    /\ ret' = results'
    /\ pc' = "done"
    /\ UNCHANGED << m, pages_loaded, config, num_thread, pool_size, inqueue, running, started, outqueue,
                    exc, calls, sent, received, queued_at_failure, dropped, out_of_order,
                    terminated >>

(***************************************************************************)
(* parse_image: the page pipeline run in the calling thread.               *)
(***************************************************************************)
ParseImage ==
    /\ entry = "image" /\ pc = "start"
    /\ pages_loaded' = 1
    /\ IF get_prompt_raises(prompt_mode, has_bbox)
       THEN /\ pc' = "raised"
            /\ exc' = "AssertionError"
            /\ UNCHANGED << results, ret, calls, sent, received >>
       ELSE \E outcome \in InferenceOutcomes(backend,
                  ImageResponses(input_image(TaskArgs(0).origin_image, prompt_mode).id)) :
              LET done == execute_task(TaskArgs(0), prompt_mode, outcome)
              IN  /\ calls' = [ calls EXCEPT ![0] = @ + 1 ]
                  /\ sent' = [ sent EXCEPT ![0] = delivered(backend) ]
                  /\ received' = [ received EXCEPT ![0] = outcome.val ]
                  /\ IF done.ok
                     THEN /\ results' = set_file_path(<< done.result >>)
                          /\ ret' = results'
                          /\ pc' = "done"
                          /\ exc' = exc
                     ELSE /\ pc' = "raised"
                          /\ exc' = done.exc
                          /\ UNCHANGED << results, ret >>
    /\ UNCHANGED << m, config, num_thread, pool_size, inqueue, running, started, outqueue,
                    queued_at_failure, dropped, out_of_order, terminated >>

\* parse_file's else branch: the extension is neither '.pdf' nor an image one.
RejectExtension ==
    /\ entry = "unsupported" /\ pc = "start"
    /\ pc' = "raised"
    /\ exc' = "ValueError"
    /\ UNCHANGED << m, pages_loaded, config, num_thread, pool_size, inqueue, running, started,
                    outqueue, results, ret, calls, sent, received, queued_at_failure, dropped,
                    out_of_order, terminated >>

Next ==
    \/ CreatePool
    \/ WorkerGet
    \/ \E i \in Pages : TaskFailsEarly(i)
    \/ \E i \in Pages : TaskRuns(i)
    \/ Collect
    \/ LeaveWith
    \/ SortAndReturn
    \/ ParseImage
    \/ RejectExtension

Spec == Init /\ [][Next]_vars

(***************************************************************************)
(* The normalizer and the mapper pair called on their own.                 *)
(***************************************************************************)
InitMap ==
    /\ file_ext = ""
    /\ entry = "none"
    /\ pages_loaded = 0
    /\ prompt_mode = "prompt_layout_all_en"
    /\ backend = "replicate"
    /\ self_num_thread = 1
    /\ total_pages = 0
    /\ has_bbox = FALSE
    /\ pc = "done"
    /\ num_thread = -1
    /\ pool_size = 0
    /\ inqueue = << >>
    /\ running = {}
    /\ started = {}
    /\ outqueue = << >>
    /\ results = << >>
    /\ ret = << >>
    /\ exc = ""
    /\ calls = [ i \in Pages |-> 0 ]
    /\ sent = [ i \in Pages |-> NoRequest ]
    /\ received = [ i \in Pages |-> NoneVal ]
    /\ queued_at_failure = {}
    /\ dropped = {}
    /\ out_of_order = FALSE
    /\ terminated = FALSE
    /\ \E height \in Dims, width \in Dims, budget \in Budgets :
         \/ \E factor \in Factors :
              m = call("normalize", height, width, factor, budget,
                       [ id |-> 0, width |-> 0, height |-> 0 ], NoBbox)
         \/ \E ow \in Dims, oh \in Dims, box \in Boxes :
              m = call("round_trip", height, width, DefaultFactor, budget,
                       [ id |-> 0, width |-> ow, height |-> oh ], box)
         \/ \E ow \in Dims, oh \in Dims, cells \in CellLists :
              /\ budget = [ min_pixels |-> 0, max_pixels |-> 0 ]
              /\ m = [ call("cells", height, width, DefaultFactor, budget,
                            [ id |-> 0, width |-> ow, height |-> oh ], NoBbox)
                       EXCEPT !.cells = ListVal(cells) ]
         \/ \E mode \in LayoutModes, response \in RecoverResponses :
              /\ budget = [ min_pixels |-> 0, max_pixels |-> 0 ]
              /\ m = [ call("recover", height, width, DefaultFactor, budget,
                            [ id |-> 0, width |-> width, height |-> height ], NoBbox)
                       EXCEPT !.mode = mode, !.response = StrVal(response) ]

scheduler == << pages_loaded, config, pc, num_thread, pool_size, inqueue, running, started, outqueue,
                results, ret, exc, calls, sent, received, queued_at_failure, dropped,
                out_of_order, terminated >>

\* smart_resize as the mappers and the page task call it.
Normalize ==
    /\ m.task = "normalize" /\ m.at = "called"
    /\ m' = [ m EXCEPT !.at = "normalized",
                       !.size = normalized_size(m.height, m.width, m.factor,
                                                m.min_pixels, m.max_pixels) ]
    /\ UNCHANGED scheduler

\* smart_resize on the pair it returned, as post_process_cells calls it on the
\* input size that _parse_single_image took from smart_resize.
Renormalize ==
    /\ m.task = "normalize" /\ m.at = "normalized"
    /\ m' = [ m EXCEPT !.at = "renormalized",
                       !.again = normalized_size(m.size[1], m.size[2], m.factor,
                                                 m.min_pixels, m.max_pixels) ]
    /\ UNCHANGED scheduler

\* pre_process_bboxes on one box.
MapToNormalized ==
    /\ m.task = "round_trip" /\ m.at = "called"
    /\ m' = [ m EXCEPT !.at = "mapped",
                       !.normalized = pre_process_bboxes(m.origin_image, << m.box >>,
                                          m.width, m.height, m.min_pixels, m.max_pixels)[1] ]
    /\ UNCHANGED scheduler

\* post_process_cells on the cell that carries the mapped box.
MapToOriginal ==
    /\ m.task = "round_trip" /\ m.at = "mapped"
    /\ LET cells == post_process_cells(m.origin_image,
                        ListVal(<< Cell(m.normalized, "Text", << >>) >>),
                        m.width, m.height, m.min_pixels, m.max_pixels)
       IN  m' = [ m EXCEPT !.at = "restored", !.restored = cells.val.items[1].bbox ]
    /\ UNCHANGED scheduler

\* post_process_output on a response text, for an image sent as it is.
Recover ==
    /\ m.task = "recover" /\ m.at = "called"
    /\ m' = [ m EXCEPT !.at = "recovered",
                       !.output = post_process_output(m.response, m.mode, m.origin_image,
                                      m.origin_image, m.min_pixels, m.max_pixels) ]
    /\ UNCHANGED scheduler

\* post_process_cells on a list of cells.
PostProcessCells ==
    /\ m.task = "cells" /\ m.at = "called"
    /\ m' = [ m EXCEPT !.at = "remapped",
                       !.cells_out = post_process_cells(m.origin_image, m.cells, m.width,
                                         m.height, m.min_pixels, m.max_pixels),
                       !.cells_after = cells_after_post_process(m.cells) ]
    /\ UNCHANGED scheduler

NextMap ==
    \/ Recover
    \/ PostProcessCells
    \/ Normalize
    \/ Renormalize
    \/ MapToNormalized
    \/ MapToOriginal

SpecMap == InitMap /\ [][NextMap]_vars

(***************************************************************************)
(* Properties of the scheduler and of the recovery engine.                 *)
(***************************************************************************)
Finished(i) == i \in started /\ i \notin running

\* Every page result that exists: queued for collection, collected, returned.
AllResults ==
    { outqueue[k].result : k \in { j \in 1..Len(outqueue) : outqueue[j].ok } }
    \cup { results[k] : k \in 1..Len(results) }
    \cup { ret[k] : k \in 1..Len(ret) }

\* The words of a value: of a text, or of the texts of a list's cells.
WordsOf(v) ==
    IF v.t = "str"
    THEN { v.s.toks[k] : k \in 1..Len(v.s.toks) }
         \cup UNION { { v.s.items[j].text[k] : k \in 1..Len(v.s.items[j].text) } :
                      j \in 1..Len(v.s.items) }
    ELSE UNION { { v.items[j].text[k] : k \in 1..Len(v.items[j].text) } :
                 j \in 1..Len(v.items) }

\* The structured parse of a response text fails.
StructuredParseFails(origin_image, mode, response) ==
    LET loaded == json_loads(response.s)
    IN  \/ ~loaded.ok
        \/ ~post_process_cells(origin_image, loaded.val,
                               input_image(origin_image, mode).width,
                               input_image(origin_image, mode).height,
                               task_min_pixels(mode), task_max_pixels(mode)).ok

\* C1: when parse_pdf returns, the returned list holds at index i the result
\* of page i, for every page i of the document, whatever the order in which
\* the page tasks completed.
C1_OrderPreserved ==
    (entry = "pdf" /\ pc = "done") =>
        \A i \in 0..(total_pages - 1) : i + 1 <= Len(ret) /\ ret[i + 1].page_no = i

\* parse_pdf returned a document of three pages whose results were collected
\* out of page order by two workers.
C1_Witness ==
    /\ entry = "pdf" /\ pc = "done" /\ total_pages = 3 /\ num_thread = 2
    /\ out_of_order

\* C2: when parse_pdf returns, the list has exactly total_pages results, their
\* page_no values are exactly 0..total_pages-1 (so none is repeated or
\* missing), and the inference client was called exactly once for each page
\* and for no other.
C2_ExactlyOncePerPage ==
    (entry = "pdf" /\ pc = "done") =>
        /\ Len(ret) = total_pages
        /\ { ret[k].page_no : k \in 1..Len(ret) } = 0..(total_pages - 1)
        /\ \A i \in Pages : calls[i] = IF i < total_pages THEN 1 ELSE 0

\* parse_pdf returned a three-page document processed by two workers.
C2_Witness ==
    /\ entry = "pdf" /\ pc = "done" /\ total_pages = 3 /\ pool_size = 2
    /\ Len(ret) = 3 /\ calls[2] = 1

\* C3: every page result is built from its own page's image and from the
\* response returned to its own page's call: the images it refers to are the
\* image of page page_no, its input dimensions are those of that image, and
\* every word of its cells, text renderings and raw response comes from the
\* text that call received.
C3_PageIsolation ==
    \A r \in AllResults :
        LET i == r.page_no
            own == smart_resize(input_image(PageImage(i), prompt_mode).height,
                                input_image(PageImage(i), prompt_mode).width,
                                DefaultFactor, MIN_PIXELS, MAX_PIXELS)
        IN  /\ i \in Pages
            /\ r.image_with_layout \in { NoImage, i }
            /\ r.origin_image \in { NoImage, i }
            /\ << r.input_height, r.input_width >> = own
            /\ received[i].t = "str"
            /\ (WordsOf(r.cells) \cup WordsOf(r.md_content) \cup WordsOf(r.md_content_no_hf)
                 \cup WordsOf(r.response)) \ { 0 } \subseteq WordsOf(received[i])
            /\ \A w \in WordsOf(received[i]) : w \div 10 = i

\* Two pages of a document were processed concurrently, finished out of page
\* order, and both results carry text.
C3_Witness ==
    /\ entry = "pdf" /\ pc = "done" /\ out_of_order /\ pool_size = 2
    /\ \E a, b \in 1..Len(ret) :
          /\ a # b
          /\ WordsOf(ret[a].cells) # {}
          /\ WordsOf(ret[b].cells) # {}

\* The response text is a list of cells of which at least one has an illegal
\* bbox (x2 <= x1 or y2 <= y1).
HasIllegalBbox(response) ==
    /\ response.t = "str"
    /\ json_loads(response.s).ok
    /\ json_loads(response.s).val.t = "list"
    /\ Len(response.s.items) > 0
    /\ \A k \in 1..Len(response.s.items) :
          response.s.items[k].isdict /\ response.s.items[k].hasbbox
    /\ ~is_legal_bbox(response.s.items)

\* C4: in a structured-layout mode, a response that parses as a list of cells
\* with at least one illegal bbox sends the whole page to the fallback branch:
\* the page result has filtered = true and carries no list of structured cells.
C4_IllegalBboxFallsBack ==
    prompt_mode \in LayoutModes =>
        \A r \in AllResults :
            HasIllegalBbox(received[r.page_no]) =>
                r.filtered /\ r.cells.t # "list"

\* C5: malformed model output never aborts the batch.  In a structured-layout
\* mode, a page task whose inference call returned a text finishes with a
\* result; a call that propagates an exception had a page whose inference call
\* itself failed or never took place; and a call that returns holds a result
\* for every page.
C5_MalformedNeverAborts ==
    prompt_mode \in LayoutModes =>
        /\ \A i \in Pages :
              (entry = "pdf" /\ Finished(i) /\ received[i].t = "str") =>
                  \E r \in AllResults : r.page_no = i
        /\ pc \in { "failed", "raised" } =>
              \/ exc = "ValueError"
              \/ get_prompt_raises(prompt_mode, has_bbox)
              \/ \E i \in Pages : calls[i] > 0 /\ received[i].t # "str"
        /\ pc = "done" =>
              \A i \in 0..(total_pages - 1) : \E k \in 1..Len(ret) : ret[k].page_no = i

\* parse_pdf returned a document of which two pages had malformed responses of
\* different shapes.
C5_Witness ==
    /\ entry = "pdf" /\ pc = "done" /\ prompt_mode \in LayoutModes
    /\ \E i, j \in 0..(total_pages - 1) :
          /\ received[i].t = "str" /\ ~json_loads(received[i].s).ok
          /\ received[j].t = "str" /\ json_loads(received[j].s).ok
          /\ StructuredParseFails(PageImage(j), prompt_mode, received[j])

\* C6: when the structured parse of a page's response fails, the page result
\* given to the caller carries filtered = true and, in place of cells, the
\* text salvaged by the fallback cleaner.
C6_FallbackCarriesSalvagedText ==
    prompt_mode \in LayoutModes =>
        \A k \in 1..Len(ret) :
            LET r == ret[k]
                img == IF entry = "pdf" THEN PageImage(r.page_no) ELSE PageImage(0)
                resp == received[r.page_no]
            IN  (resp.t = "str" /\ StructuredParseFails(img, prompt_mode, resp)) =>
                   /\ r.filtered
                   /\ r.cells = post_process_output(resp, prompt_mode, img,
                                    input_image(img, prompt_mode),
                                    task_min_pixels(prompt_mode),
                                    task_max_pixels(prompt_mode)).cells

\* C7 as stated: once a page task's failure reaches the caller, no document
\* result is returned and no task queued at that moment is started afterwards.
C7_QueuedNeverStartAfterFailure ==
    pc \in { "failed", "raised" } =>
        /\ ret = << >>
        /\ queued_at_failure \cap started = {}

\* C7, amended: a page task's failure propagates and no list, partial or
\* complete, is returned; a returned list is complete; and the tasks that the
\* pool's termination removes from the queue are never started.
C7_FailurePropagates ==
    /\ pc \in { "failed", "raised" } => ret = << >> /\ exc # ""
    /\ (\E k \in 1..Len(outqueue) : ~outqueue[k].ok) => pc # "done"
    /\ ret # << >> => exc = "" /\ Len(ret) = total_pages
    /\ terminated => inqueue = << >>
    /\ dropped \cap started = {}

\* A task failed while another was still queued; the failure propagated and
\* the queued task was removed without having been started.
C7_Witness ==
    /\ entry = "pdf" /\ pc = "raised" /\ exc = "InferenceError"
    /\ dropped # {} /\ dropped \cap started = {}
    /\ Len(results) > 0

\* C8: the pool parse_pdf creates has min(total_pages, self.num_thread)
\* workers, that number is at least 1, and never more page tasks than that run
\* at once.
C8_PoolSizeAtLeastOne ==
    (entry = "pdf" /\ pc # "start") =>
        /\ num_thread = Min(total_pages, self_num_thread)
        /\ num_thread >= 1
        /\ pool_size = num_thread
        /\ Cardinality(running) <= num_thread

(***************************************************************************)
(* Properties of the coordinate mappers and of the dimension normalizer.   *)
(***************************************************************************)
Abs(x) == IF x < 0 THEN -x ELSE x

\* The side of the original image and of the normalized image that scale
\* coordinate k of a box (1, 3: widths; 2, 4: heights).
OriginalSide(k) == IF k \in { 1, 3 } THEN m.origin_image.width ELSE m.origin_image.height

NormalizedSide(k) ==
    LET hw == normalized_size(m.height, m.width, DefaultFactor, m.min_pixels, m.max_pixels)
    IN  IF k \in { 1, 3 } THEN hw[2] ELSE hw[1]

\* C9 (as stated): mapping a box to normalized space with pre_process_bboxes
\* and back with post_process_cells yields the box within +/-1 unit on each of
\* the four coordinates, for every pair of original and normalized size.
C9_RoundTripWithinOne ==
    m.at = "restored" => \A k \in 1..4 : Abs(m.box[k] - m.restored[k]) <= 1

\* C9 (amended): the round trip never increases a coordinate, and it loses less
\* than (original side / normalized side) + 1 units of it; so the box comes
\* back within +/-1 unit on each coordinate whenever the original side is no
\* longer than the normalized side.
C9_RoundTripLoss ==
    m.at = "restored" =>
        \A k \in 1..4 :
            /\ m.restored[k] <= m.box[k]
            /\ (m.box[k] - m.restored[k]) * NormalizedSide(k) < OriginalSide(k) + NormalizedSide(k)
            /\ OriginalSide(k) <= NormalizedSide(k) => m.box[k] - m.restored[k] <= 1

\* A round trip through a normalized image narrower than the original that
\* lost more than one unit of the right edge and still returned a proper box.
C9_Witness ==
    /\ m.at = "restored"
    /\ OriginalSide(3) > NormalizedSide(3)
    /\ m.box[3] - m.restored[3] >= 2
    /\ m.restored[3] > m.restored[1]
    /\ OriginalSide(2) <= NormalizedSide(2)
    /\ m.box[2] - m.restored[2] = 1

EffectiveMin == orDefault(m.min_pixels, MIN_PIXELS)
EffectiveMax == orDefault(m.max_pixels, MAX_PIXELS)

OnGrid ==
    /\ m.size[1] > 0 /\ m.size[1] % m.factor = 0
    /\ m.size[2] > 0 /\ m.size[2] % m.factor = 0

InBudget(size) ==
    EffectiveMin <= size[1] * size[2] /\ size[1] * size[2] <= EffectiveMax

C12_UnsupportedExtensionFailsFirst ==
    (file_ext # ".pdf" /\ file_ext \notin image_extensions /\ entry # "none") =>
        /\ pc \in { "start", "raised" }
        /\ pc = "raised" => exc = "ValueError"
        /\ pages_loaded = 0
        /\ pool_size = 0 /\ started = {}
        /\ \A i \in Pages : calls[i] = 0
        /\ ret = << >>

\* parse_file raised on a path with the extension '.txt'.
C12_Witness ==
    /\ file_ext = ".txt" /\ pc = "raised" /\ exc = "ValueError"
    /\ pages_loaded = 0

\* C13: for every backend, parse_image runs the page pipeline in the calling
\* thread (no pool) and makes exactly one inference call, which carries the
\* parser's temperature, top_p and max_completion_tokens; when that call
\* returns a text, parse_image returns a list of exactly one result with
\* page_no 0 and file_path equal to the input path.
C13_ParseImageOneCallOneResult ==
    (entry = "image" /\ pc # "start" /\ ~get_prompt_raises(prompt_mode, has_bbox)) =>
        /\ pool_size = 0 /\ started = {}
        /\ calls[0] = 1
        /\ sent[0] # NoRequest
        /\ sent[0].temperature = self_temperature
        /\ sent[0].top_p = self_top_p
        /\ sent[0].max_completion_tokens = self_max_completion_tokens
        /\ received[0].t = "str" =>
              /\ pc = "done"
              /\ Len(ret) = 1
              /\ ret[1].page_no = 0
              /\ ret[1].file_path = "input_path"

\* C14: in a prompt mode that is not a structured-layout mode every page
\* result carries the response of its page's call unchanged, and has no cells,
\* no filtered flag, no layout image and no text renderings; whatever the
\* shape of the response text, the page task finishes with such a result.
C14_RawModesBypassRecovery ==
    prompt_mode \in RawModes =>
        /\ \A r \in AllResults :
              /\ r.response = received[r.page_no]
              /\ r.cells = NoneVal
              /\ ~r.filtered
              /\ r.image_with_layout = NoImage
              /\ r.md_content = NoneVal
              /\ r.md_content_no_hf = NoneVal
        /\ \A i \in Pages :
              (entry = "pdf" /\ Finished(i) /\ received[i].t = "str") =>
                  \E r \in AllResults : r.page_no = i
        /\ (entry = "image" /\ pc # "start" /\ received[0].t = "str") =>
              pc = "done" /\ Len(ret) = 1

\* parse_pdf returned, in a raw mode, a document one of whose responses is a
\* text that is not JSON and another a list of cells.
C14_Witness ==
    /\ entry = "pdf" /\ pc = "done" /\ prompt_mode \in RawModes
    /\ \E a, b \in 1..Len(ret) :
          /\ ret[a].response.t = "str" /\ ~json_loads(ret[a].response.s).ok
          /\ ret[b].response.t = "str" /\ json_loads(ret[b].response.s).ok

\* C15: every cell of a structured (not degraded) page result has, after the
\* remapping to original pixel space, a bbox with x2 > x1 and y2 > y1.
C15_EmittedCellsLegal ==
    prompt_mode \in LayoutModes =>
        \A r \in AllResults :
            (r.cells.t = "list" /\ ~r.filtered) => is_legal_bbox(r.cells.items)

\* The number of appends of a result of page i to parse_pdf's buffer.
Appends(i) == Cardinality({ k \in 1..Len(results) : results[k].page_no = i })

\* Page task i completed with a result.
Succeeded(i) == Finished(i) /\ calls[i] = 1 /\ received[i].t = "str"

\* C16 (as stated): once parse_pdf has left its collecting loop, the buffer
\* has received exactly one append for every page task that completed.
C16_OneAppendPerCompletedTask ==
    (entry = "pdf" /\ pc \in { "sort", "done", "raised" }) =>
        \A i \in Pages : Succeeded(i) => Appends(i) = 1

AppendsOnlyOfCompleted ==
    entry = "pdf" =>
        /\ \A i \in Pages : Appends(i) <= 1 /\ (Appends(i) = 1 => Succeeded(i))
        /\ pc \in { "sort", "done" } =>
              /\ inqueue = << >> /\ running = {} /\ outqueue = << >>
              /\ \A i \in 0..(total_pages - 1) : Appends(i) = 1
        /\ ret # << >> => pc = "done"

\* A step that changes the buffer is a step of the calling thread: either it
\* appends one collected result, no worker moving in that step, or it is the
\* sort that precedes the return.
BufferWrittenByCollector ==
    (entry = "pdf" /\ results' # results) =>
        \/ /\ pc = "collect"
           /\ Len(results') = Len(results) + 1
           /\ SubSeq(results', 1, Len(results)) = results
           /\ running' = running /\ inqueue' = inqueue
        \/ /\ pc = "sort" /\ pc' = "done"
           /\ Len(results') = Len(results)
           /\ ret' = results'

\* C16 (amended): the buffer receives at most one append per page task, each
\* of a task that completed with a result and each made by the collecting
\* thread; it is sorted and handed to the caller only after every page task
\* has completed and has been appended exactly once.  (A task that completes
\* after another task's failure has reached the caller is never appended.)
C16_BufferWrittenOncePerCollectedTask ==
    [] AppendsOnlyOfCompleted /\ [][BufferWrittenByCollector]_vars

\* All three page tasks of a document are drained and appended, out of page
\* order, and the buffer is about to be sorted.
C16_Witness ==
    /\ entry = "pdf" /\ pc = "sort" /\ total_pages = 3 /\ pool_size = 2
    /\ Len(results) = 3 /\ results[1].page_no # 0
    /\ running = {} /\ outqueue = << >>

\* C17: in every structured-layout mode each page result is either
\* Structured (cells is a list of cells, filtered not set) or Recovered
\* (filtered set, the payload a text), and the result of a page whose
\* structured parse failed has filtered set.
C17_StructuredOrRecovered ==
    prompt_mode \in LayoutModes =>
        \A r \in AllResults :
            LET img == IF entry = "pdf" THEN PageImage(r.page_no) ELSE PageImage(0)
                resp == received[r.page_no]
            IN  /\ \/ r.cells.t = "list" /\ ~r.filtered
                   \/ r.cells.t = "str" /\ r.filtered
                /\ (resp.t = "str" /\ StructuredParseFails(img, prompt_mode, resp)) =>
                       r.filtered

HasText(item) == item.hastext

\* What the cleaner is given: the loaded value when json.loads succeeded, the
\* response text otherwise.
CleanerInput(response) ==
    IF json_loads(response.s).ok THEN json_loads(response.s).val ELSE response

\* The texts ts[1], ..., ts[n] with the blank-line word 0 between neighbours.
RECURSIVE BlankLineJoined(_)
BlankLineJoined(ts) ==
    IF Len(ts) = 0 THEN << >>
    ELSE IF Len(ts) = 1 THEN ts[1]
    ELSE BlankLineJoined(SubSeq(ts, 1, Len(ts) - 1)) \o << 0 >> \o ts[Len(ts)]

\* C18: on the fallback branch of post_process_output the second returned
\* value is True; if the cleaner yields a list, the salvaged text is the text
\* fields of exactly the records that have one, in their order, joined by a
\* blank line; otherwise it is the cleaner's output unchanged.
C18_FallbackJoinsRecordTexts ==
    (m.at = "recovered" /\ StructuredParseFails(m.origin_image, m.mode, m.response)) =>
        LET clean == clean_model_output(CleanerInput(m.response))
            with_text == SelectSeq(clean.items, HasText)
        IN  /\ m.output.ok /\ m.output.filtered
            /\ IF clean.t = "list"
               THEN m.output.cells =
                        StrVal(Prose(BlankLineJoined(
                            [ k \in 1..Len(with_text) |-> with_text[k].text ])))
               ELSE m.output.cells = clean

\* The fallback branch was taken on a fenced list of which three records
\* have a text and one has none; the salvaged text joins the three.
C18_Witness ==
    /\ m.at = "recovered"
    /\ m.response = StrVal(Fenced(MixedList))
    /\ m.output.filtered
    /\ m.output.cells = StrVal(Prose(<< 5, 0, 6, 7, 0, 8 >>))

\* C19: post_process_cells returns one output cell per input cell, in the
\* same order; every bbox is scaled with the one scale pair of the page
\* (original side / normalized side, per axis); an output cell equals its
\* input cell on every field but bbox; the input list and its cells are left
\* as they were.
C19_CellsRemappedInPlaceOrder ==
    (m.at = "remapped" /\ m.cells_out.ok) =>
        LET in == m.cells.items
            out == m.cells_out.val.items
        IN  /\ m.cells_out.val.t = "list"
            /\ Len(out) = Len(in)
            /\ \A k \in 1..Len(in) :
                  /\ out[k] = [ in[k] EXCEPT !.bbox = out[k].bbox ]
                  /\ \A j \in 1..4 :
                        out[k].bbox[j] =
                            (in[k].bbox[j] * OriginalSide(j)) \div NormalizedSide(j)
            /\ m.cells_after = m.cells

\* Two different cells with different texts were remapped for an original
\* image larger than the normalized one, and the bboxes changed.
C19_Witness ==
    /\ m.at = "remapped" /\ m.cells_out.ok
    /\ Len(m.cells.items) = 2
    /\ m.cells.items[1].category = "Title" /\ m.cells.items[2].category = "Page-footer"
    /\ OriginalSide(1) > NormalizedSide(1)
    /\ m.cells_out.val.items[1].bbox # m.cells.items[1].bbox
    /\ m.cells_out.val.items[2].text = << 3, 4 >>

=============================================================================
